---- MODULE Spec2Model ----
(***************************************************************************)
(* GAIA Station integration (custom_components/gaia_station).              *)
(*                                                                         *)
(*   api.py          GaiaStationApiClient.async_get_data                   *)
(*   coordinator.py  GaiaStationDataUpdateCoordinator                      *)
(*                     _async_update_data, _flatten_data                   *)
(*   sensor.py       ALL_STATIC_SENSORS, _build_dynamic_pms_sensors,       *)
(*                   async_setup_entry, GaiaStationSensor.native_value     *)
(*                                                                         *)
(* JSON values are tagged records [t, v, m]: t is the Python type the      *)
(* value has after json.loads ("obj" dict, "num" int/float, "str", "bool", *)
(* "null" None, "list"), v an integer payload that tells values of one     *)
(* type apart, m the members of a dict (a function from keys to JSON       *)
(* values; <<>> for every other type).  Keys of dicts are real strings and *)
(* the f-strings of the code are string concatenations, so that two        *)
(* composed keys are equal exactly when the Python strings are.            *)
(***************************************************************************)
EXTENDS Integers, Sequences, FiniteSets, TLC

VARIABLES
    raw_data,             \* coordinator.raw_data
    data,                 \* coordinator.data (the published snapshot, or None)
    last_update_success,  \* coordinator.last_update_success
    fetch,                \* how async_get_data ended in the last tick
    tick,                 \* how _async_update_data ended in the last tick
    setup_done,           \* async_setup_entry has run
    entities,             \* the list handed to async_add_entities
    fl_pc, fl_in, fl_out, \* one call of _flatten_data: position, argument, result
    net_pc, net_in, net_out \* one call of async_get_data: position, network outcome, result

vars == <<raw_data, data, last_update_success, fetch, tick, setup_done, entities,
          fl_pc, fl_in, fl_out, net_pc, net_in, net_out>>

coordVars == <<raw_data, data, last_update_success, fetch, tick>>
setupVars == <<setup_done, entities>>
flVars == <<fl_pc, fl_in, fl_out>>
netVars == <<net_pc, net_in, net_out>>

-----------------------------------------------------------------------------
(* Bounds of the model.                                                    *)

\* numeric readings are drawn from 1..MaxVal (scaled per field, see StatsBlock)
MaxVal == 2

-----------------------------------------------------------------------------
(* JSON values as Python sees them after json.loads.                       *)

JObj(m) == [t |-> "obj", v |-> 0, m |-> m]
JNum(n) == [t |-> "num", v |-> n, m |-> <<>>]
JStr(n) == [t |-> "str", v |-> n, m |-> <<>>]
JBool(n) == [t |-> "bool", v |-> n, m |-> <<>>]
JList(n) == [t |-> "list", v |-> n, m |-> <<>>]
JNull == [t |-> "null", v |-> 0, m |-> <<>>]

EmptyDict == JObj(<<>>)

\* isinstance(x, dict)
IsDict(x) == x.t = "obj"

\* isinstance(x, (int, float)): bool is a subclass of int in Python, so the
\* JSON literals true and false pass this test as well as the numbers do.
IsIntOrFloat(x) == x.t \in {"num", "bool"}

\* k in d, for a dict d
HasKey(d, k) == k \in DOMAIN d.m

\* d.get(k): None when the key is missing
DictGet(d, k) == IF HasKey(d, k) THEN d.m[k] ELSE JNull

\* d.get(k, {})
DictGetOrEmpty(d, k) == IF HasKey(d, k) THEN d.m[k] ELSE EmptyDict

\* flat[k] = v on a dict held as a function
DictStore(f, k, v) == [x \in (DOMAIN f) \cup {k} |-> IF x = k THEN v ELSE f[x]]

\* The keys of a dict in one iteration order.
RECURSIVE KeyOrder(_)
KeyOrder(S) ==
    IF S = {} THEN <<>>
    ELSE LET k == CHOOSE x \in S : TRUE IN <<k>> \o KeyOrder(S \ {k})

\* Concatenation of a sequence of sequences, in order.
RECURSIVE Concat(_)
Concat(ss) == IF ss = <<>> THEN <<>> ELSE Head(ss) \o Concat(Tail(ss))

-----------------------------------------------------------------------------
(* coordinator.py: _flatten_data.                                          *)
(* The dict `flat` is built by assignments flat[key] = value; the model    *)
(* keeps the assignments as a sequence of <<key, value>> in the order the  *)
(* code makes them and then applies them, a later one overwriting an       *)
(* earlier one with the same key, as a Python dict does.                   *)

StatKeys == <<"latest", "mean", "median", "min", "max", "stddev", "samples">>
ParticleTypes == <<"pm25", "pm1", "pm10">>
MetTypes == <<"temperature", "humidity">>
SysKeys == <<"boot", "vpwr", "heap", "alive", "time">>
ReservedGroups == {"historic", "rolling"}

\* for stat_key in (...): if stat_key in d: flat[f"{prefix}_{stat_key}"] = d[stat_key]
StatWrites(prefix, d) ==
    LET present == SelectSeq(StatKeys, LAMBDA s : HasKey(d, s))
    IN  [i \in 1..Len(present) |-> <<prefix \o "_" \o present[i], d.m[present[i]]>>]

\* for particle_type in ("pm25", "pm1", "pm10"): skip unless a dict, else the stats
ParticleWrites(head, group_data) ==
    Concat([i \in 1..Len(ParticleTypes) |->
        LET particle_data == DictGet(group_data, ParticleTypes[i])
        IN  IF ~IsDict(particle_data) THEN <<>>
            ELSE StatWrites(head \o "_" \o ParticleTypes[i], particle_data)])

\* for group_key, group_data in pms.items(): the individual groups
GroupWrites(pms) ==
    LET order == KeyOrder(DOMAIN pms.m)
    IN  Concat([i \in 1..Len(order) |->
            IF order[i] \in ReservedGroups THEN <<>>
            ELSE IF ~IsDict(pms.m[order[i]]) THEN <<>>
            ELSE ParticleWrites(order[i], pms.m[order[i]])])

\* rolling_pms = pms.get("rolling", {})
RollingWrites(pms) ==
    LET rolling_pms == DictGetOrEmpty(pms, "rolling")
    IN  IF IsDict(rolling_pms) THEN ParticleWrites("rolling", rolling_pms) ELSE <<>>

\* co2 = data.get("co2", {}); co2_rolling = co2.get("rolling")
Co2Writes(d) ==
    LET co2 == DictGetOrEmpty(d, "co2")
    IN  IF ~IsDict(co2) THEN <<>>
        ELSE LET co2_rolling == DictGet(co2, "rolling")
             IN  IF IsDict(co2_rolling) THEN StatWrites("co2", co2_rolling) ELSE <<>>

\* met = data.get("met", {}); a dict gives its stats, an int or float gives _latest
MetWrites(d) ==
    LET met == DictGetOrEmpty(d, "met")
    IN  IF ~IsDict(met) THEN <<>>
        ELSE Concat([i \in 1..Len(MetTypes) |->
                LET met_data == DictGet(met, MetTypes[i])
                IN  IF IsDict(met_data) THEN StatWrites(MetTypes[i], met_data)
                    ELSE IF IsIntOrFloat(met_data)
                         THEN << <<MetTypes[i] \o "_latest", met_data>> >>
                    ELSE <<>>])

\* sys_data = data.get("sys", {}); the five fields
SysWrites(d) ==
    LET sys_data == DictGetOrEmpty(d, "sys")
    IN  IF ~IsDict(sys_data) THEN <<>>
        ELSE LET present == SelectSeq(SysKeys, LAMBDA k : HasKey(sys_data, k))
             IN  [i \in 1..Len(present) |-> <<"sys_" \o present[i], sys_data.m[present[i]]>>]

\* The assignments to `flat`, in program order, when pms is a dict.
FlatWrites(d) ==
    LET pms == DictGetOrEmpty(d, "pms")
    IN  GroupWrites(pms) \o RollingWrites(pms) \o Co2Writes(d) \o MetWrites(d) \o SysWrites(d)

RECURSIVE ApplyWrites(_, _)
ApplyWrites(flat, ws) ==
    IF ws = <<>> THEN flat
    ELSE ApplyWrites(DictStore(flat, Head(ws)[1], Head(ws)[2]), Tail(ws))

\* How a call ends: it returns a value or an exception leaves it.
Returned(x) == [exc |-> "", msg |-> "", val |-> x]
Raised(e, msg) == [exc |-> e, msg |-> msg, val |-> <<>>]

\* _flatten_data(data).  pms.items() is called on whatever data.get("pms", {})
\* gave: a value that is no dict has no attribute `items`.
FlattenData(d) ==
    LET pms == DictGetOrEmpty(d, "pms")
    IN  IF ~IsDict(pms)
        THEN Raised("AttributeError", "object has no attribute 'items'")
        ELSE Returned(ApplyWrites(<<>>, FlatWrites(d)))

-----------------------------------------------------------------------------
(* api.py: GaiaStationApiClient.async_get_data.                            *)
(* What the network does in one call is the input `net`:                   *)
(*   kind "timeout"     the 10 s async_timeout expires (TimeoutError)      *)
(*   kind "connection"  aiohttp.ClientConnectionError (DNS, refused, reset)*)
(*   kind "client"      another aiohttp.ClientError (e.g. a payload error) *)
(*   kind "response"    a response with `status` and a body; `parses`      *)
(*                      says whether json.loads accepts the body text and  *)
(*                      `value` is what it returns then.                   *)

Host == "gaia.local"
BaseUrl == "http://" \o Host
Url(endpoint) == BaseUrl \o endpoint

NetFailure(kind) == [kind |-> kind, status |-> 0, parses |-> FALSE, value |-> JNull]
NetResponse(status, parses, value) ==
    [kind |-> "response", status |-> status, parses |-> parses, value |-> value]

\* The direct base classes of the exception types the call can meet.
Bases(cls) ==
    CASE cls = "JSONDecodeError" -> {"ValueError"}
      [] cls = "ClientConnectionError" -> {"ClientError"}
      [] cls = "ClientResponseError" -> {"ClientError"}
      [] cls = "GaiaStationConnectionError" -> {"GaiaStationApiError"}
      [] cls = "GaiaStationTimeoutError" -> {"GaiaStationApiError"}
      [] OTHER -> {}

\* isinstance(an exception of class exc, cls): the hierarchy is two levels deep.
IsInstance(exc, cls) == exc = cls \/ cls \in Bases(exc)

\* response.raise_for_status(): aiohttp raises ClientResponseError when the
\* response is not `ok`, and `ok` is status < 400.  With allow_redirects=False a
\* 3xx response is handed to the caller as it is.
RaiseForStatus(status) == status >= 400

\* type(data) in the ValueError message
PyTypeName(x) ==
    CASE x.t = "num" -> "<class 'int'>"
      [] x.t = "str" -> "<class 'str'>"
      [] x.t = "bool" -> "<class 'bool'>"
      [] x.t = "list" -> "<class 'list'>"
      [] x.t = "null" -> "<class 'NoneType'>"
      [] OTHER -> "<class 'dict'>"

JsonErrText == "Expecting value: line 1 column 1 (char 0)"

\* The statements inside `async with self.session.get(...)`.
\* The result carries `status` for the ClientResponseError handler.
ResponseBody(net, url) ==
    IF RaiseForStatus(net.status)
    THEN Raised("ClientResponseError", ToString(net.status))
    ELSE \* text = await response.text(); the inner try
         IF ~net.parses
         THEN \* except json.JSONDecodeError
              Raised("GaiaStationApiError",
                     "Invalid JSON response from " \o url \o ": " \o JsonErrText)
         ELSE IF ~IsDict(net.value)
              THEN \* a ValueError is no JSONDecodeError: the inner handler lets it pass
                   Raised("ValueError", "Expected dict, got " \o PyTypeName(net.value))
              ELSE Returned(net.value)

\* The body of the outer try.
TryBody(net, url) ==
    CASE net.kind = "timeout" -> Raised("TimeoutError", "")
      [] net.kind = "connection" -> Raised("ClientConnectionError", "connection refused")
      [] net.kind = "client" -> Raised("ClientError", "payload error")
      [] OTHER -> ResponseBody(net, url)

\* The four except clauses of the outer try, tried in order.
OuterHandlers(r, url) ==
    IF r.exc = "" THEN r
    ELSE IF IsInstance(r.exc, "TimeoutError")
         THEN Raised("GaiaStationTimeoutError", "Timeout connecting to " \o Host)
    ELSE IF IsInstance(r.exc, "ClientConnectionError")
         THEN Raised("GaiaStationConnectionError",
                     "Cannot connect to " \o Host \o ": " \o r.msg)
    ELSE IF IsInstance(r.exc, "ClientResponseError")
         THEN Raised("GaiaStationApiError", "HTTP " \o r.msg \o " error from " \o url)
    ELSE IF IsInstance(r.exc, "ClientError")
         THEN Raised("GaiaStationConnectionError",
                     "HTTP error connecting to " \o Host \o ": " \o r.msg)
    ELSE r

\* async_get_data(endpoint), given what the network does.
AsyncGetData(endpoint, net) == OuterHandlers(TryBody(net, Url(endpoint)), Url(endpoint))

\* async_get_realtime_data()
AsyncGetRealtimeData(net) == AsyncGetData("/realtime/", net)

-----------------------------------------------------------------------------
(* The payloads the device may send: the inputs of the model.              *)

\* One value of every JSON type that is no object.
Junk == {JNum(7), JStr(1), JBool(1), JList(1), JNull}

FieldNames == StatKeys \o <<"bogus">>
FieldCode(f) == CHOOSE i \in 1..Len(FieldNames) : FieldNames[i] = f
AllStats == {StatKeys[i] : i \in 1..Len(StatKeys)}

\* A stats block with the fields F; every field holds its own number, so that a
\* value written under the wrong key shows.
StatsBlock(F, b) == JObj([f \in F |-> JNum(10 * b + FieldCode(f))])

FieldSets ==
    {{}, {"latest"}, {"latest", "mean"}, {"min", "max", "median"}, AllStats \cup {"bogus"}}

\* A block whose values are no numbers: the transform copies them as they are.
OddBlock == JObj([f \in {"latest", "mean"} |-> IF f = "latest" THEN JNull ELSE JStr(2)])

Blocks == {StatsBlock(F, b) : F \in FieldSets, b \in 1..MaxVal} \cup {OddBlock}
SmallBlocks == {StatsBlock({"latest", "mean"}, b) : b \in 1..MaxVal}
ChannelVals == Blocks \cup Junk

Single(k, x) == [y \in {k} |-> x]
Pair(k1, x1, k2, x2) == [y \in {k1, k2} |-> IF y = k1 THEN x1 ELSE x2]

ChannelNames == {"pm25", "pm1", "pm10", "pm4"}
GroupObjs ==
    {JObj(Single(c, x)) : c \in ChannelNames, x \in ChannelVals}
    \cup {JObj(Pair("pm25", x, "pm10", y)) : x \in SmallBlocks, y \in SmallBlocks}
    \cup {EmptyDict}
GroupVals == GroupObjs \cup Junk
SmallGroupVals ==
    {JObj(Single("pm25", StatsBlock({"latest", "mean"}, 1))),
     JObj(Pair("pm1", StatsBlock({"min"}, 2), "pm10", StatsBlock({"latest"}, 1))),
     JNum(7)}
GroupNames == {"pms1", "pms2", "pms3", "pms4", "rolling", "historic"}

\* A choice for one optional member: {} is "the member is absent".
Opt(S) == {{}} \cup {{x} : x \in S}
Member(k, c) == IF c = {} THEN <<>> ELSE Single(k, CHOOSE x \in c : TRUE)
Payload(p, c, m, s, e) ==
    JObj(Member("pms", p) @@ Member("co2", c) @@ Member("met", m) @@ Member("sys", s)
         @@ Member("wifi", e))

PmsRich ==
    Opt({JObj(Single(g, gv)) : g \in GroupNames, gv \in GroupVals}
        \cup {JObj(Pair(gs[1], a, gs[2], b)) :
                gs \in {x \in GroupNames \X GroupNames : x[1] # x[2]},
                a \in SmallGroupVals, b \in SmallGroupVals}
        \cup Junk \cup {EmptyDict})
Co2Rich ==
    Opt({JObj(Single("rolling", x)) : x \in ChannelVals}
        \cup {JObj(Single("latest", JNum(5)))}
        \cup Junk \cup {EmptyDict})
MetRich ==
    Opt({JObj(Single(t, x)) : t \in {"temperature", "humidity", "pressure"}, x \in ChannelVals}
        \cup {JObj(Pair("temperature", x, "humidity", y)) :
                x \in SmallBlocks \cup {JNum(21)}, y \in SmallBlocks \cup {JNum(40)}}
        \cup Junk \cup {EmptyDict})
SysFieldNames == {SysKeys[i] : i \in 1..Len(SysKeys)} \cup {"rssi"}
SysCode(k) ==
    CASE k = "boot" -> 1 [] k = "vpwr" -> 2 [] k = "heap" -> 3
      [] k = "alive" -> 4 [] k = "time" -> 5 [] OTHER -> 6
SysRich ==
    Opt({JObj([k \in K |-> JNum(100 + SysCode(k))]) : K \in SUBSET SysFieldNames}
        \cup Junk)

SmallPms ==
    {{}, {JNull},
     {JObj(Pair("pms1", JObj(Single("pm25", StatsBlock({"latest", "mean"}, 1))),
                "rolling", JObj(Single("pm10", StatsBlock({"latest"}, 2)))))}}
SmallCo2 == {{}, {JStr(1)}, {JObj(Single("rolling", StatsBlock({"latest", "max"}, 1)))}}
SmallMet ==
    {{}, {JList(1)},
     {JObj(Pair("temperature", StatsBlock({"latest"}, 1), "humidity", JNum(40)))}}
SmallSys == {{}, {JNum(7)}, {JObj(Pair("boot", JNum(3), "vpwr", JNum(5)))}}
SmallExtra == {{}, {JNum(1)}}

\* Every payload is rich in one branch and small in the others.
Payloads ==
    {Payload(p, c, m, s, {}) : p \in PmsRich, c \in SmallCo2, m \in SmallMet, s \in SmallSys}
    \cup {Payload(p, c, m, s, {}) : p \in SmallPms, c \in Co2Rich, m \in SmallMet, s \in SmallSys}
    \cup {Payload(p, c, m, s, {}) : p \in SmallPms, c \in SmallCo2, m \in MetRich, s \in SmallSys}
    \cup {Payload(p, c, m, s, e) :
            p \in SmallPms, c \in SmallCo2, m \in SmallMet, s \in SysRich, e \in SmallExtra}

-----------------------------------------------------------------------------
(* coordinator.py: _async_update_data, and what the DataUpdateCoordinator  *)
(* base class does with its result.                                        *)

\* coordinator.data: None, or the dict a refresh returned
NoneData == [some |-> FALSE, m |-> <<>>]
SomeData(f) == [some |-> TRUE, m |-> f]

\* RawAfterFetch with raw_data reset when the call raises.
MutRawAfterFetchReset(old, r) == IF r.exc = "" THEN r.val ELSE EmptyDict

\* self.raw_data = await self.client.async_get_realtime_data(): the assignment
\* happens only when the call returns.
RawAfterFetch(old, r) == IF r.exc = "" THEN r.val ELSE old

\* AsyncUpdateData with the new flat map merged into the published one.
MutAsyncUpdateDataMerge(r) ==
    IF r.exc = ""
    THEN IF FlattenData(r.val).exc # "" THEN FlattenData(r.val)
         ELSE Returned(ApplyWrites(data.m, FlatWrites(r.val)))
    ELSE IF IsInstance(r.exc, "GaiaStationApiError")
         THEN Raised("UpdateFailed", "Error communicating with API: " \o r.msg)
    ELSE Raised(r.exc, r.msg)

\* The try/except of _async_update_data, given how the fetch ended.
AsyncUpdateData(r) ==
    IF r.exc = "" THEN FlattenData(r.val)
    ELSE IF IsInstance(r.exc, "GaiaStationApiError")
         THEN Raised("UpdateFailed", "Error communicating with API: " \o r.msg)
    ELSE Raised(r.exc, r.msg)

\* The refresh of the base class: a returned dict becomes coordinator.data and
\* the refresh counts as successful; on any exception the data stay and
\* last_update_success becomes False.
DataAfterRefresh(old, out) == IF out.exc = "" THEN SomeData(out.val) ELSE old
SuccessAfterRefresh(out) == out.exc = ""

-----------------------------------------------------------------------------
(* sensor.py: the descriptors, async_setup_entry, native_value.            *)
(* A descriptor is [key, value_key]: `key` is its key field and value_key  *)
(* the key its value_fn lambda reads.                                      *)

Descr(k, vk) == [key |-> k, value_key |-> vk]

ROLLING_PM_SENSORS ==
    <<Descr("rolling_pm25_latest", "rolling_pm25_latest"),
      Descr("rolling_pm25_mean", "rolling_pm25_mean"),
      Descr("rolling_pm1_latest", "rolling_pm1_latest"),
      Descr("rolling_pm1_mean", "rolling_pm1_mean"),
      Descr("rolling_pm10_latest", "rolling_pm10_latest"),
      Descr("rolling_pm10_mean", "rolling_pm10_mean")>>
CO2_SENSORS ==
    <<Descr("co2_latest", "co2_latest"),
      Descr("co2_mean", "co2_mean"),
      Descr("co2_min", "co2_min"),
      Descr("co2_max", "co2_max"),
      Descr("co2_median", "co2_median")>>
MET_SENSORS ==
    <<Descr("temperature_latest", "temperature_latest"),
      Descr("humidity_latest", "humidity_latest")>>
SYSTEM_SENSORS ==
    <<Descr("sys_vpwr", "sys_vpwr"),
      Descr("sys_heap", "sys_heap"),
      Descr("sys_alive", "sys_alive"),
      Descr("sys_boot", "sys_boot")>>
ALL_STATIC_SENSORS == ROLLING_PM_SENSORS \o CO2_SENSORS \o MET_SENSORS \o SYSTEM_SENSORS

\* key.startswith(prefix)
StartsWith(str, prefix) ==
    Len(str) >= Len(prefix) /\ SubSeq(str, 1, Len(prefix)) = prefix

\* Python's order of strings, for the characters the keys are made of.
Alphabet == "0123456789_abcdefghijklmnopqrstuvwxyz"
CharRank(c) == CHOOSE i \in 1..Len(Alphabet) : SubSeq(Alphabet, i, i) = c
RECURSIVE StrLess(_, _)
StrLess(a, b) ==
    IF b = "" THEN FALSE
    ELSE IF a = "" THEN TRUE
    ELSE LET ca == CharRank(SubSeq(a, 1, 1))
             cb == CharRank(SubSeq(b, 1, 1))
         IN  IF ca # cb THEN ca < cb
             ELSE StrLess(SubSeq(a, 2, Len(a)), SubSeq(b, 2, Len(b)))

\* sorted(S) for a set of strings
RECURSIVE Sorted(_)
Sorted(S) ==
    IF S = {} THEN <<>>
    ELSE LET least == CHOOSE x \in S : \A y \in S \ {x} : StrLess(x, y)
         IN  <<least>> \o Sorted(S \ {least})

PrefixCandidates == {"pms1", "pms2", "pms3"}
DynamicStats == <<"latest", "mean", "min", "max", "median">>

\* BuildDynamicPmsSensors with all five descriptors of every channel of a
\* discovered group, whether their keys are in the data or not.
MutBuildDynamicPmsSensorsUngated(d) ==
    LET discovered_groups ==
            {c \in PrefixCandidates : \E key \in DOMAIN d : StartsWith(key, c \o "_")}
        groups == Sorted(discovered_groups)
        ForPm(group, pm_key) ==
            [i \in 1..Len(DynamicStats) |->
                Descr(group \o "_" \o pm_key \o "_" \o DynamicStats[i],
                      group \o "_" \o pm_key \o "_" \o DynamicStats[i])]
        ForGroup(group) ==
            Concat([j \in 1..Len(ParticleTypes) |-> ForPm(group, ParticleTypes[j])])
    IN  Concat([g \in 1..Len(groups) |-> ForGroup(groups[g])])

\* _build_dynamic_pms_sensors(data), data a dict held as a function
BuildDynamicPmsSensors(d) ==
    LET discovered_groups ==
            {c \in PrefixCandidates : \E key \in DOMAIN d : StartsWith(key, c \o "_")}
        groups == Sorted(discovered_groups)
        ForPm(group, pm_key) ==
            LET keys == [i \in 1..Len(DynamicStats) |->
                            group \o "_" \o pm_key \o "_" \o DynamicStats[i]]
                present == SelectSeq(keys, LAMBDA k : k \in DOMAIN d)
            IN  [i \in 1..Len(present) |-> Descr(present[i], present[i])]
        ForGroup(group) ==
            Concat([j \in 1..Len(ParticleTypes) |-> ForPm(group, ParticleTypes[j])])
    IN  Concat([g \in 1..Len(groups) |-> ForGroup(groups[g])])

\* StaticEntities without the key gate.
MutStaticEntitiesUngated(d) == ALL_STATIC_SENSORS

\* for description in ALL_STATIC_SENSORS: if description.key in data
StaticEntities(d) == SelectSeq(ALL_STATIC_SENSORS, LAMBDA desc : desc.key \in DOMAIN d)

\* data = coordinator.data or {}
DataOrEmpty(cd) == IF cd.some THEN cd.m ELSE <<>>

\* NativeValue giving None after a failed refresh.
MutNativeValueNoneOnFailure(desc) ==
    IF ~data.some \/ ~last_update_success THEN JNull
    ELSE IF desc.value_key \in DOMAIN data.m THEN data.m[desc.value_key] ELSE JNull

\* GaiaStationSensor.native_value, for the sensor with descriptor desc:
\* value_fn is data.get(<value_key>)
NativeValue(desc) ==
    IF ~data.some THEN JNull
    ELSE IF desc.value_key \in DOMAIN data.m THEN data.m[desc.value_key] ELSE JNull

\* CoordinatorEntity.available, which GaiaStationSensor inherits
Available == last_update_success

-----------------------------------------------------------------------------
(* The inputs of the ticks.                                                *)

Reading(b, n) == JNum(10 * b + n)
TickShape(shape, b) ==
    CASE shape = "base" ->
            Payload({JObj(Single("pms1", JObj(Single("pm25",
                        JObj(Pair("latest", Reading(b, 1), "mean", Reading(b, 2)))))))},
                    {JObj(Single("rolling", JObj(Single("latest", Reading(b, 3)))))},
                    {}, {JObj(Pair("boot", JNum(3), "vpwr", Reading(b, 4)))}, {})
      [] shape = "more" ->
            Payload({JObj(Pair("pms2", JObj(Single("pm10", JObj(Single("min", Reading(b, 5))))),
                               "rolling", JObj(Single("pm25",
                                    JObj(Single("latest", Reading(b, 6)))))))},
                    {JObj(Single("rolling", JObj(Single("latest", Reading(b, 3)))))},
                    {JObj(Single("temperature", Reading(b, 7)))},
                    {JObj(Pair("boot", JNum(3), "vpwr", Reading(b, 4)))}, {})
      [] shape = "less" ->
            Payload({}, {}, {}, {JObj(Single("boot", Reading(b, 8)))}, {})
      [] shape = "badpms" ->
            Payload({JNull}, {}, {}, {JObj(Single("boot", Reading(b, 8)))}, {})
      [] OTHER -> EmptyDict
TickShapes == {"base", "more", "less", "badpms", "empty"}
TickPayloads == {TickShape(sh, b) : sh \in TickShapes, b \in 1..MaxVal}

BodyValues == Junk \cup TickPayloads
NetFailures == {NetFailure(k) : k \in {"timeout", "connection", "client"}}

TickStatuses == {200, 301, 404}
TickNets ==
    NetFailures
    \cup {NetResponse(st, FALSE, JNull) : st \in TickStatuses}
    \cup {NetResponse(st, TRUE, v) : st \in TickStatuses, v \in {JList(1)} \cup TickPayloads}

Statuses == {200, 201, 204, 299, 300, 301, 302, 304, 307, 399, 400, 404, 500, 503}
NetOutcomes ==
    NetFailures
    \cup {NetResponse(st, FALSE, JNull) : st \in Statuses}
    \cup {NetResponse(st, TRUE, v) : st \in Statuses, v \in BodyValues}

-----------------------------------------------------------------------------
(* The state machine.                                                      *)

NoCall == [exc |-> "none", msg |-> "", val |-> <<>>]

CoordInit ==
    /\ raw_data = EmptyDict
    /\ data = NoneData
    /\ last_update_success = TRUE
    /\ fetch = NoCall
    /\ tick = NoCall
SetupInit == setup_done = FALSE /\ entities = <<>>
FlIdle == fl_pc = "idle" /\ fl_in = EmptyDict /\ fl_out = NoCall
NetIdle == net_pc = "idle" /\ net_in = NetFailure("timeout") /\ net_out = NoCall

\* After construction: no refresh has run, no platform is set up.
Init == CoordInit /\ SetupInit /\ FlIdle /\ NetIdle

\* Tick with the entity list built again from every published snapshot.
MutTickRescan(net) ==
    LET r == AsyncGetRealtimeData(net)
        out == AsyncUpdateData(r)
    IN  /\ fetch' = r
        /\ raw_data' = RawAfterFetch(raw_data, r)
        /\ tick' = out
        /\ data' = DataAfterRefresh(data, out)
        /\ last_update_success' = SuccessAfterRefresh(out)
        /\ entities' = IF setup_done /\ out.exc = ""
                       THEN StaticEntities(out.val) \o BuildDynamicPmsSensors(out.val)
                       ELSE entities
        /\ UNCHANGED <<setup_done, flVars, netVars>>

\* One scheduled refresh, with `net` what the network does during it.
Tick(net) ==
    LET r == AsyncGetRealtimeData(net)
        out == AsyncUpdateData(r)
    IN  /\ fetch' = r
        /\ raw_data' = RawAfterFetch(raw_data, r)
        /\ tick' = out
        /\ data' = DataAfterRefresh(data, out)
        /\ last_update_success' = SuccessAfterRefresh(out)
        /\ UNCHANGED <<setupVars, flVars, netVars>>

\* async_setup_entry: runs once.
AsyncSetupEntry ==
    /\ ~setup_done
    /\ LET d == DataOrEmpty(data)
       IN  entities' = StaticEntities(d) \o BuildDynamicPmsSensors(d)
    /\ setup_done' = TRUE
    /\ UNCHANGED <<coordVars, flVars, netVars>>

Next == (\E net \in TickNets : Tick(net)) \/ AsyncSetupEntry

Spec == Init /\ [][Next]_vars

\* The ticks are driven by the host's 60 s timer, which never stops.
FairSpec == Spec /\ WF_vars(\E net \in TickNets : Tick(net))

-----------------------------------------------------------------------------
(* _flatten_data on its own: one call for every payload.                   *)

FlattenInit ==
    /\ CoordInit /\ SetupInit /\ NetIdle
    /\ fl_pc = "call" /\ fl_in \in Payloads /\ fl_out = NoCall

FlattenCall ==
    /\ fl_pc = "call"
    /\ fl_out' = FlattenData(fl_in)
    /\ fl_pc' = "done"
    /\ UNCHANGED <<fl_in, coordVars, setupVars, netVars>>

FlattenSpec == FlattenInit /\ [][FlattenCall]_vars

-----------------------------------------------------------------------------
(* async_get_data on its own: one call for every network outcome.          *)

FetchInit ==
    /\ CoordInit /\ SetupInit /\ FlIdle
    /\ net_pc = "call" /\ net_in \in NetOutcomes /\ net_out = NoCall

FetchCall ==
    /\ net_pc = "call"
    /\ net_out' = AsyncGetData("/realtime/", net_in)
    /\ net_pc' = "done"
    /\ UNCHANGED <<net_in, coordVars, setupVars, flVars>>

FetchSpec == FetchInit /\ [][FetchCall]_vars

-----------------------------------------------------------------------------
(* async_setup_entry on its own: entity setup for every snapshot the first *)
(* refresh can have published, and for none.                               *)

FirstRefresh(p) ==
    /\ raw_data = p
    /\ data = SomeData(FlattenData(p).val)
    /\ last_update_success = TRUE
    /\ fetch = Returned(p)
    /\ tick = FlattenData(p)

EntitySetupInit ==
    /\ SetupInit /\ FlIdle /\ NetIdle
    /\ \/ CoordInit
       \/ \E p \in Payloads : FlattenData(p).exc = "" /\ FirstRefresh(p)

EntitySetupSpec == EntitySetupInit /\ [][AsyncSetupEntry]_vars

-----------------------------------------------------------------------------
(* Properties of async_get_data (FetchSpec).                               *)

Failed(r) == r.exc \notin {"", "none"}
IsResponse(net) == net.kind = "response"
Is2xx(status) == status \in 200..299
HttpErrorMsg(status) == "HTTP " \o ToString(status) \o " error from " \o Url("/realtime/")

\* C1: for every response whose status is not in 200..299 (3xx, 4xx, 5xx), whatever
\* its body, async_get_data raises GaiaStationApiError carrying the status code and
\* returns no payload.
C1_NonSuccessStatusRaisesApiError ==
    (net_pc = "done" /\ IsResponse(net_in) /\ ~Is2xx(net_in.status))
        => /\ net_out.exc = "GaiaStationApiError"
           /\ net_out.msg = HttpErrorMsg(net_in.status)

\* What the code does hold to: a status of 400 and above raises GaiaStationApiError
\* with the status code, and a 3xx response is treated exactly as a 2xx one with
\* the same body.
ErrorStatusRaisesApiError ==
    (net_pc = "done" /\ IsResponse(net_in))
        => IF net_in.status >= 400
           THEN net_out.exc = "GaiaStationApiError"
                /\ net_out.msg = HttpErrorMsg(net_in.status)
           ELSE net_out =
                AsyncGetData("/realtime/", NetResponse(200, net_in.parses, net_in.value))

\* C2: for every 2xx response whose body is no valid JSON, or is valid JSON whose
\* top-level value is no object, async_get_data raises GaiaStationApiError and no
\* other exception type.
C2_BadBodyRaisesApiError ==
    (net_pc = "done" /\ IsResponse(net_in) /\ Is2xx(net_in.status)
        /\ (~net_in.parses \/ ~IsDict(net_in.value)))
        => net_out.exc = "GaiaStationApiError"

\* What the code does hold to: a body that does not parse raises
\* GaiaStationApiError, a body that parses to a non-object raises ValueError.
BadBodyRaises ==
    (net_pc = "done" /\ IsResponse(net_in) /\ Is2xx(net_in.status))
        => /\ ~net_in.parses => net_out.exc = "GaiaStationApiError"
           /\ (net_in.parses /\ ~IsDict(net_in.value)) => net_out.exc = "ValueError"
           /\ (net_in.parses /\ IsDict(net_in.value)) => net_out = Returned(net_in.value)

-----------------------------------------------------------------------------
(* Properties of _flatten_data (FlattenSpec).                              *)

Range(seq) == {seq[i] : i \in 1..Len(seq)}
PairsOf(f) == {<<k, f[k]>> : k \in DOMAIN f}

\* The writes of the branches of a payload that the malformed places of the
\* payload leave alone: co2, met and sys always, the pms groups when pms is an
\* object.
BranchWrites(p) ==
    Range(Co2Writes(p)) \cup Range(MetWrites(p)) \cup Range(SysWrites(p))
    \cup (IF IsDict(DictGetOrEmpty(p, "pms"))
          THEN Range(GroupWrites(DictGetOrEmpty(p, "pms")))
               \cup Range(RollingWrites(DictGetOrEmpty(p, "pms")))
          ELSE {})

\* C3: for every JSON object, also one where pms, pms.rolling, pms.<group>, co2,
\* co2.rolling, met, met.temperature, met.humidity or sys is missing or no object,
\* _flatten_data returns a flat map without raising, and the keys of the other,
\* well-formed branches are emitted.
C3_FlattenNeverRaises ==
    fl_pc = "done"
        => /\ fl_out.exc = ""
           /\ BranchWrites(fl_in) \subseteq PairsOf(fl_out.val)

\* What the code does hold to: the claim, for every payload whose pms member is
\* missing or an object.
FlattenRaisesOnlyOnBadPms ==
    fl_pc = "done"
        => IF IsDict(DictGetOrEmpty(fl_in, "pms"))
           THEN fl_out.exc = "" /\ BranchWrites(fl_in) \subseteq PairsOf(fl_out.val)
           ELSE fl_out.exc = "AttributeError"

\* Traversal rules 1-5 as a set of source fields.  A source field is
\* <<key it maps to, path of the field in the payload, its value>>; `number`
\* is the set of JSON types rule 4 takes for a bare number.
ObjAt(d, k) == IF HasKey(d, k) /\ IsDict(d.m[k]) THEN d.m[k] ELSE EmptyDict
ChannelSet == Range(ParticleTypes)
SysSet == Range(SysKeys)
MetSet == Range(MetTypes)

Rule1(p) ==
    LET pms == ObjAt(p, "pms")
    IN  {<<x[1] \o "_" \o x[2] \o "_" \o x[3], <<"pms", x[1], x[2], x[3]>>,
           ObjAt(ObjAt(pms, x[1]), x[2]).m[x[3]]>> :
            x \in {y \in ((DOMAIN pms.m) \ ReservedGroups) \X ChannelSet \X AllStats :
                        HasKey(ObjAt(ObjAt(pms, y[1]), y[2]), y[3])}}
Rule2(p) ==
    LET rolling == ObjAt(ObjAt(p, "pms"), "rolling")
    IN  {<<"rolling_" \o x[1] \o "_" \o x[2], <<"pms", "rolling", x[1], x[2]>>,
           ObjAt(rolling, x[1]).m[x[2]]>> :
            x \in {y \in ChannelSet \X AllStats : HasKey(ObjAt(rolling, y[1]), y[2])}}
Rule3(p) ==
    LET rolling == ObjAt(ObjAt(p, "co2"), "rolling")
    IN  {<<"co2_" \o st, <<"co2", "rolling", st>>, rolling.m[st]>> :
            st \in {y \in AllStats : HasKey(rolling, y)}}
Rule4(p, number) ==
    LET met == ObjAt(p, "met")
    IN  {<<x[1] \o "_" \o x[2], <<"met", x[1], x[2]>>, ObjAt(met, x[1]).m[x[2]]>> :
            x \in {y \in MetSet \X AllStats : HasKey(ObjAt(met, y[1]), y[2])}}
        \cup {<<n \o "_latest", <<"met", n>>, met.m[n]>> :
                n \in {y \in MetSet : HasKey(met, y) /\ met.m[y].t \in number}}
Rule5(p) ==
    LET sys == ObjAt(p, "sys")
    IN  {<<"sys_" \o k, <<"sys", k>>, sys.m[k]>> : k \in {y \in SysSet : HasKey(sys, y)}}

RuleFields(p, number) == Rule1(p) \cup Rule2(p) \cup Rule3(p) \cup Rule4(p, number) \cup Rule5(p)

\* A payload is well formed when each place that is to hold an object is missing
\* or holds one; met.temperature and met.humidity may hold any value.
MissingOrDict(d, k) == HasKey(d, k) => IsDict(d.m[k])
WellFormed(p) ==
    /\ MissingOrDict(p, "pms") /\ MissingOrDict(p, "co2")
    /\ MissingOrDict(p, "met") /\ MissingOrDict(p, "sys")
    /\ \A g \in DOMAIN ObjAt(p, "pms").m :
            /\ IsDict(ObjAt(p, "pms").m[g])
            /\ \A c \in DOMAIN ObjAt(p, "pms").m[g].m : IsDict(ObjAt(p, "pms").m[g].m[c])
    /\ MissingOrDict(ObjAt(p, "co2"), "rolling")

\* The flat map is exactly the rules' map, and no two source fields share a key.
MatchesRules(flat, fields) ==
    /\ PairsOf(flat) = {<<f[1], f[3]>> : f \in fields}
    /\ \A f \in fields : \A g \in fields : f[1] = g[1] => f[2] = g[2]

\* C4: for every well-formed payload the result of _flatten_data is exactly the map
\* of traversal rules 1-5: every present recognised source field under its key with
\* its value unchanged, `<name>_latest` for a bare number under met (any other
\* value type emits no key), nothing for absent or unrecognised fields, and no two
\* source fields under one key.
C4_FlattenIsExactlyTheRules ==
    (fl_pc = "done" /\ WellFormed(fl_in))
        => /\ fl_out.exc = ""
           /\ MatchesRules(fl_out.val, RuleFields(fl_in, {"num"}))

\* What the code does hold to: the claim with the JSON booleans counted among the
\* bare numbers of rule 4, since isinstance(True, (int, float)) holds.
FlattenIsTheRulesWithBool ==
    (fl_pc = "done" /\ WellFormed(fl_in))
        => /\ fl_out.exc = ""
           /\ MatchesRules(fl_out.val, RuleFields(fl_in, {"num", "bool"}))

-----------------------------------------------------------------------------
(* Properties of the ticks (Spec).                                         *)

UpdateFailedMsg(r) == "Error communicating with API: " \o r.msg

\* C5: whenever the fetch of a tick fails, for any cause of the transport
\* (connection failure, timeout, non-2xx status, body that is no valid JSON, JSON
\* body that is no object), _async_update_data raises UpdateFailed carrying the
\* original message, and no other exception type leaves the tick.
C5_FetchFailureRaisesUpdateFailed ==
    Failed(fetch) => tick.exc = "UpdateFailed" /\ tick.msg = UpdateFailedMsg(fetch)

\* What the code does hold to: the claim for every failure async_get_data reports
\* as a GaiaStationApiError; the ValueError of a non-object body leaves the tick
\* as it is.
ApiErrorRaisesUpdateFailed ==
    Failed(fetch) =>
        IF IsInstance(fetch.exc, "GaiaStationApiError")
        THEN tick.exc = "UpdateFailed" /\ tick.msg = UpdateFailedMsg(fetch)
        ELSE fetch.exc = "ValueError" /\ tick.exc = "ValueError"

\* C6: a tick whose fetch fails leaves coordinator.data and coordinator.raw_data
\* exactly as they were before the tick, whatever ticks came before.
C6_FailedFetchLeavesState ==
    [][Failed(fetch') => (data' = data /\ raw_data' = raw_data)]_vars

C6_Witness ==
    /\ Failed(fetch) /\ data.some /\ data.m # <<>>
    /\ raw_data # EmptyDict /\ ~last_update_success

\* C7: after every successful tick the published snapshot is exactly the flattening
\* of the payload fetched in that tick, with no key and no value of an earlier
\* snapshot in it.
C7_SnapshotIsReplaced ==
    tick.exc = "" => (data.some /\ data.m = FlattenData(fetch.val).val)

\* A successful tick after setup whose snapshot lacks the key of a sensor: an
\* earlier snapshot held a key that this one does not.
C7_Witness ==
    /\ tick.exc = "" /\ setup_done
    /\ \E i \in 1..Len(entities) : entities[i].key \notin DOMAIN data.m
    /\ data.m # <<>>

Lookup(f, k) == IF k \in DOMAIN f THEN f[k] ELSE JNull
TickEnabled == ENABLED (\E net \in TickNets : Tick(net))
ShowsFetched ==
    tick.exc = "" =>
        \A i \in 1..Len(entities) :
            NativeValue(entities[i]) = Lookup(FlattenData(fetch.val).val, entities[i].key)

\* C8: after a tick fails every dependent sensor shows unavailable, its exposed
\* value (native_value) absent and not the value of the last good snapshot, in
\* every state until the next successful tick; a failed tick does not stop later
\* ticks, and the first later successful tick makes the sensors show that tick's
\* values again.
C8_FailedTickHidesValues ==
    /\ Failed(tick) => \A i \in 1..Len(entities) : NativeValue(entities[i]) = JNull
    /\ TickEnabled
    /\ ShowsFetched

\* C8 as amended: after a failed tick every sensor is unavailable through the
\* availability flag it inherits (last_update_success is False) while its
\* native_value still is the value at its key in the last published snapshot, until
\* the next successful tick; later ticks stay possible and a successful one makes
\* the sensors available with that tick's values.
C8_FailedTickMarksUnavailable ==
    /\ Failed(tick) =>
            /\ ~Available
            /\ \A i \in 1..Len(entities) :
                    NativeValue(entities[i]) = Lookup(data.m, entities[i].key)
    /\ TickEnabled
    /\ tick.exc = "" => Available
    /\ ShowsFetched

\* A failed tick after setup with a sensor whose native_value is a reading of the
\* last good snapshot.
C8_Witness ==
    /\ Failed(tick) /\ setup_done /\ data.some
    /\ \E i \in 1..Len(entities) : NativeValue(entities[i]) # JNull

\* C9: the list of sensors is fixed at entity setup: no later tick adds or removes
\* one, whatever keys its flat map gains or loses; native_value of a sensor is None
\* when there is no snapshot or its key is absent from it, and the value at its own
\* key otherwise.
C9_SensorsFixedAfterSetup ==
    /\ [][setup_done => (setup_done' /\ entities' = entities)]_vars
    /\ [](\A i \in 1..Len(entities) :
            NativeValue(entities[i]) =
                IF ~data.some \/ entities[i].key \notin DOMAIN data.m
                THEN JNull ELSE data.m[entities[i].key])

\* After setup: a snapshot that lacks the key of a sensor and holds a catalog key
\* and a particulate group that no sensor has.
C9_Witness ==
    /\ setup_done /\ data.some /\ Len(entities) > 0
    /\ \E i \in 1..Len(entities) : entities[i].key \notin DOMAIN data.m
    /\ \E i \in 1..Len(entities) : entities[i].key \in DOMAIN data.m
    /\ \E k \in DOMAIN data.m :
            /\ StartsWith(k, "pms2_")
            /\ \A i \in 1..Len(entities) : entities[i].key # k
    /\ \E k \in DOMAIN data.m :
            /\ k = "temperature_latest"
            /\ \A i \in 1..Len(entities) : entities[i].key # k

-----------------------------------------------------------------------------
(* Properties of entity setup (EntitySetupSpec).                           *)

CatalogKeys ==
    {"rolling_pm25_latest", "rolling_pm25_mean", "rolling_pm1_latest", "rolling_pm1_mean",
     "rolling_pm10_latest", "rolling_pm10_mean",
     "co2_latest", "co2_mean", "co2_min", "co2_max", "co2_median",
     "temperature_latest", "humidity_latest",
     "sys_vpwr", "sys_heap", "sys_alive", "sys_boot"}

\* The keys the dynamic descriptors can have.
DynamicKeys ==
    {x[1] \o "_" \o x[2] \o "_" \o x[3] :
        x \in PrefixCandidates \X ChannelSet \X Range(DynamicStats)}

Count(seq, k) == Cardinality({i \in 1..Len(seq) : seq[i].key = k})

\* C10: at entity setup, for every flat map, also an empty or missing one, the
\* static sensors created are exactly the descriptors of the static catalog whose
\* key is in the flat map at that moment: none for an absent key, exactly one for a
\* present key.
C10_StaticSensorsAreKeyGated ==
    setup_done =>
        /\ \A k \in CatalogKeys :
                Count(entities, k) = IF k \in DOMAIN DataOrEmpty(data) THEN 1 ELSE 0
        /\ \A i \in 1..Len(entities) :
                entities[i].key \in CatalogKeys \cup DynamicKeys

\* Setup from a snapshot that holds some catalog keys and lacks others, among them
\* sys_time, which the transform emits and the catalog does not list.
C10_Witness ==
    /\ setup_done /\ data.some
    /\ "sys_time" \in DOMAIN data.m
    /\ \E k \in CatalogKeys : k \in DOMAIN data.m
    /\ \E k \in CatalogKeys : k \notin DOMAIN data.m
    /\ Len(entities) > 0

\* The keys `<group>_<channel>_<stat>` the claim names.
PmsSensorKeys ==
    {x[1] \o "_" \o x[2] \o "_" \o x[3] :
        x \in {"pms1", "pms2", "pms3"} \X {"pm25", "pm1", "pm10"}
              \X {"latest", "mean", "min", "max", "median"}}

\* The descriptors _build_dynamic_pms_sensors gave: the entities after the static ones.
DynamicPart == SelectSeq(entities, LAMBDA e : e.key \notin CatalogKeys)

\* The place of a key's group among pms1 < pms2 < pms3.
GroupRank(k) ==
    CASE StartsWith(k, "pms1_") -> 1
      [] StartsWith(k, "pms2_") -> 2
      [] StartsWith(k, "pms3_") -> 3
      [] OTHER -> 0

\* C11: for every flat map _build_dynamic_pms_sensors returns exactly one descriptor
\* for each key <group>_<channel>_<stat> in the map with group in pms1..pms3,
\* channel in pm25, pm1, pm10 and stat in latest, mean, min, max, median, none for
\* any other key (stddev, samples, other groups, absent keys), nothing for a group
\* without a key `<group>_...`, and the descriptors come ordered by group name.
C11_DynamicSensorsAreKeyGated ==
    setup_done =>
        /\ \A k \in PmsSensorKeys :
                Count(DynamicPart, k) = IF k \in DOMAIN DataOrEmpty(data) THEN 1 ELSE 0
        /\ \A i \in 1..Len(DynamicPart) :
                /\ DynamicPart[i].key \in PmsSensorKeys
                /\ DynamicPart[i].key \in DOMAIN DataOrEmpty(data)
                /\ DynamicPart[i].value_key = DynamicPart[i].key
        /\ \A i \in 1..Len(DynamicPart) : \A j \in i..Len(DynamicPart) :
                GroupRank(DynamicPart[i].key) <= GroupRank(DynamicPart[j].key)

\* Setup from a snapshot with two discovered groups, one of them with some of its
\* stats only, and with a group that is no candidate.
C11_Witness ==
    /\ setup_done /\ data.some
    /\ \E i \in 1..Len(DynamicPart) : \E j \in 1..Len(DynamicPart) :
            GroupRank(DynamicPart[i].key) < GroupRank(DynamicPart[j].key)
    /\ \E k \in PmsSensorKeys : k \notin DOMAIN data.m /\ GroupRank(k) = 3
    /\ \E k \in PmsSensorKeys : k \in DOMAIN data.m /\ GroupRank(k) = 3

\* Setup from a snapshot that holds keys of pms1 (stddev, samples) or of pms4 and
\* gets no dynamic descriptor: a case of "no descriptor for any other key".
DynamicOtherKeysCase ==
    /\ setup_done /\ data.some /\ DynamicPart = <<>>
    /\ \E k \in DOMAIN data.m : StartsWith(k, "pms1_") \/ StartsWith(k, "pms4_")

-----------------------------------------------------------------------------
(* The coordinator's two fields (Spec).                                    *)

\* C12: in every state reachable by ticks (successful, failed in the transport, or
\* fetching a payload with a malformed group), whenever a snapshot is published it
\* is the flattening of the retained raw payload: data = _flatten_data(raw_data).
C12_SnapshotIsFlattenOfRaw ==
    data.some =>
        /\ FlattenData(raw_data).exc = ""
        /\ data.m = FlattenData(raw_data).val

\* What the code does hold to: the snapshot is the flattening of raw_data unless
\* raw_data is a payload on which _flatten_data raises; then raw_data is the new
\* payload and the snapshot an older one's.
SnapshotIsFlattenOfRawUnlessRaised ==
    data.some =>
        IF FlattenData(raw_data).exc = ""
        THEN data.m = FlattenData(raw_data).val
        ELSE tick.exc # "" /\ ~IsDict(DictGetOrEmpty(raw_data, "pms"))

====
